---- MODULE Spec2Model ----
(***************************************************************************)
(* Model of CorbaAccess (src/corba_access.cc, src/corba_access.hh): the    *)
(* process-wide ORB handle and root naming context, their initialisation   *)
(* and destruction, the enumeration of the names bound under the           *)
(* "ControlTasks" naming context and the lookup of one task by name; and   *)
(* of the driver that uses them (src/main.cpp).                            *)
(*                                                                         *)
(* The ORB and the naming service are outside the repository.  Every call  *)
(* into them is modelled by its possible outcomes: a result, or a CORBA    *)
(* exception.  The build is against omniORB4 (corba_access.hh:4,           *)
(* corba_access.cc:21), whose nil object references are real objects: an   *)
(* operation invoked through a nil _var raises CORBA::INV_OBJREF.          *)
(***************************************************************************)
EXTENDS Integers, Sequences, FiniteSets, TLC

VARIABLES orb, rootContext, orbDestroyed, rootDestroyed, registry,
          nextNReturns, lastCall, arg, ret, calls, hist, pc, mainNames

vars == <<orb, rootContext, orbDestroyed, rootDestroyed, registry,
          nextNReturns, lastCall, arg, ret, calls, hist, pc, mainNames>>

\* ------------------------------------------------------------------ bounds

\* Largest number of bindings under ControlTasks.
MaxBindings == 23

\* Number of calls into CorbaAccess in one run.
MaxCalls == 3

\* Names asked of findByName are 1..MaxName (bound when <= registry.n).
MaxName == 3

\* ---------------------------------------------------------------- constants

\* As the page size, halved.
HalfPageSize == 10 \div 2

\* The page size handed to next_n.
PageSize == 10

\* The how_many handed to list.
ListHowMany == 0

\* ------------------------------------------------------------- references

NilRef == "nil"
OrbRef == "orb"
NamingContextRef == "NamingContext"
IteratorRef == "BindingIterator"

\* A default-constructed _var holds the nil reference.
is_nil(ref) == ref = NilRef

\* ------------------------------------------------------------- exceptions

\* IllegalServer derives from std::exception only.
IllegalServer == "IllegalServer"

\* CosNaming::NamingContext::NotFound, a CORBA::UserException.
NotFound == "NotFound"

\* CORBA system exceptions and the naming service's user exceptions.
CorbaExceptions ==
    {"TRANSIENT", "INV_OBJREF", "OBJECT_NOT_EXIST", "INITIALIZE",
     "InvalidName", "NotEmpty", NotFound}

\* catch (CORBA::Exception &e) matches exactly the classes derived from it.
IsCorbaException(exc) == exc \in CorbaExceptions

\* ---------------------------------------------------------------- results

Return(v) == [kind |-> "return", exc |-> "none", val |-> v]
Throw(e) == [kind |-> "throw", exc |-> e, val |-> "none"]

\* An operation invoked through a reference: nil raises INV_OBJREF, a
\* destroyed ORB or a destroyed servant raises OBJECT_NOT_EXIST, and the
\* call itself may raise the transport fault the environment picked.
InvokeFault(ref, dead, fault) ==
    IF is_nil(ref) THEN "INV_OBJREF"
    ELSE IF dead THEN "OBJECT_NOT_EXIST"
    ELSE fault

\* CosNaming::NamingContext::_narrow and ControlTask::_narrow: nil for a
\* nil reference or for an object of another interface.
Narrow(objKind, wanted) == IF objKind = wanted THEN wanted ELSE NilRef

\* ---------------------------------------------------------------- InitOrb

\* What the ORB and the naming service do during one InitOrb call.
InitEnv ==
    [orbInit : {"ok", "INITIALIZE"},
     nsRef : {NilRef, NamingContextRef, "Object", "InvalidName", "TRANSIENT"},
     narrowFault : {"none", "TRANSIENT"}]

\* As the handler of InitOrb's try block, releasing the ORB on failure.
InitOrbCatchReleasingOrb(o, rc, exc) ==
    IF IsCorbaException(exc)
    THEN [orb |-> NilRef, rootContext |-> NilRef, ret |-> Return(FALSE)]
    ELSE [orb |-> NilRef, rootContext |-> NilRef, ret |-> Throw(exc)]

\* The handler of InitOrb's try block.
InitOrbCatch(o, rc, exc) ==
    IF IsCorbaException(exc)
    THEN [orb |-> o, rootContext |-> rc, ret |-> Return(FALSE)]
    ELSE [orb |-> o, rootContext |-> rc, ret |-> Throw(exc)]

\* As InitOrb without the already-initialised guard.
InitOrbNoGuard(o, rc, e) ==
    IF e.orbInit # "ok" THEN InitOrbCatch(o, rc, e.orbInit)
    ELSE IF IsCorbaException(e.nsRef) THEN InitOrbCatch(OrbRef, rc, e.nsRef)
    ELSE IF ~is_nil(e.nsRef) /\ e.narrowFault # "none"
         THEN InitOrbCatch(OrbRef, rc, e.narrowFault)
    ELSE LET narrowed == Narrow(e.nsRef, NamingContextRef) IN
         IF is_nil(e.nsRef) THEN InitOrbCatch(OrbRef, narrowed, IllegalServer)
         ELSE [orb |-> OrbRef, rootContext |-> narrowed, ret |-> Return(TRUE)]

InitOrbCode(o, rc, e) ==
    IF ~is_nil(o)
    THEN [orb |-> o, rootContext |-> rc, ret |-> Return(FALSE)]
    ELSE IF e.orbInit # "ok" THEN InitOrbCatch(o, rc, e.orbInit)
    ELSE IF IsCorbaException(e.nsRef) THEN InitOrbCatch(OrbRef, rc, e.nsRef)
    ELSE IF ~is_nil(e.nsRef) /\ e.narrowFault # "none"
         THEN InitOrbCatch(OrbRef, rc, e.narrowFault)
    ELSE LET narrowed == Narrow(e.nsRef, NamingContextRef) IN
         IF is_nil(e.nsRef) THEN InitOrbCatch(OrbRef, narrowed, IllegalServer)
         ELSE [orb |-> OrbRef, rootContext |-> narrowed, ret |-> Return(TRUE)]

\* ------------------------------------------------------------- DestroyOrb

\* The faults the two destroy calls of one DestroyOrb call raise.
DestroyEnv ==
    [rootDestroy : {"none", "NotEmpty", "TRANSIENT"},
     orbDestroy : {"none", "TRANSIENT"}]

\* As the handler of DestroyOrb's try block, catching system exceptions
\* only and letting the naming service's user exceptions through.
DestroyOrbCatchSystemOnly(od, rd, exc) ==
    IF IsCorbaException(exc) /\ exc # "NotEmpty"
    THEN [orbDestroyed |-> od, rootDestroyed |-> rd, ret |-> Return("void")]
    ELSE [orbDestroyed |-> od, rootDestroyed |-> rd, ret |-> Throw(exc)]

\* The handler of DestroyOrb's try block.
DestroyOrbCatch(od, rd, exc) ==
    IF IsCorbaException(exc)
    THEN [orbDestroyed |-> od, rootDestroyed |-> rd, ret |-> Return("void")]
    ELSE [orbDestroyed |-> od, rootDestroyed |-> rd, ret |-> Throw(exc)]

DestroyOrbCode(o, rc, od, rd, e) ==
    LET rootFault == InvokeFault(rc, od \/ rd, e.rootDestroy) IN
    IF rootFault # "none" THEN DestroyOrbCatch(od, rd, rootFault)
    ELSE LET orbFault == InvokeFault(o, od, e.orbDestroy) IN
         IF orbFault # "none" THEN DestroyOrbCatch(od, TRUE, orbFault)
         ELSE [orbDestroyed |-> TRUE, rootDestroyed |-> TRUE,
               ret |-> Return("void")]

\* --------------------------------------------------------------- registry

\* The naming service's content: whether the root context binds
\* "ControlTasks", and the number of bindings under it.  The bindings are
\* named 1..n, in the order the naming service lists them.
Registries ==
    {[hasControlTasks |-> FALSE, n |-> 0]}
    \cup {[hasControlTasks |-> TRUE, n |-> k] : k \in 0..MaxBindings}

Bindings(reg) == [i \in 1..reg.n |-> i]

Min(a, b) == IF a < b THEN a ELSE b

Take(s, k) == SubSeq(s, 1, Min(k, Len(s)))

Drop(s, k) == SubSeq(s, Min(k, Len(s)) + 1, Len(s))

\* The two readings of the boolean next_n returns: TRUE when the batch it
\* delivered holds a binding, or TRUE when bindings remain after the batch.
NextNConventions == {"batch_nonempty", "more_remain"}

\* NamingContext::list(how_many, bl, bi): the first how_many bindings in bl,
\* the others behind the iterator bi; a naming service may hand out a nil
\* iterator when bl holds every binding.
ListBindings(reg, howMany, iterNil) ==
    LET all == Bindings(reg) IN
    [bl |-> Take(all, howMany),
     rest |-> Drop(all, howMany),
     bi |-> IF Len(Drop(all, howMany)) = 0 /\ iterNil
            THEN NilRef ELSE IteratorRef]

\* BindingIterator::next_n(how_many, bl): up to how_many further bindings
\* and a boolean.
NextN(rest, howMany, convention) ==
    [bl |-> Take(rest, howMany),
     rest |-> Drop(rest, howMany),
     more |-> IF convention = "batch_nonempty"
              THEN Len(Take(rest, howMany)) > 0
              ELSE Len(Drop(rest, howMany)) > 0]

\* ------------------------------------------------------------- knownTasks

\* The calls knownTasks makes, in order: resolve, _narrow, list, and then
\* next_n as often as the loop runs.
MaxNextN == (MaxBindings + PageSize - 1) \div PageSize + 1

StepResolve == 1
StepNarrow == 2
StepList == 3

\* What the naming service does during one knownTasks call: the call that
\* raises a transport fault (0: none), the interface of the object bound as
\* "ControlTasks", and whether list hands out a nil iterator when it can.
KnownTasksEnv ==
    [faultAt : 0..(StepList + MaxNextN),
     ctKind : {NamingContextRef, "Object"},
     iterNil : BOOLEAN]

FaultAt(e, step) == IF e.faultAt = step THEN "TRANSIENT" ELSE "none"

\* As the body of the while loop, starting the for loop at the second
\* binding of the batch.
PushBatchSkipFirst(names, bl) == names \o Drop(bl, 1)

\* The body of the while loop: every binding of the batch is appended.
PushBatch(names, bl) == names \o bl

\* while (binding_it->next_n(10, binding_list)) { ... }
RECURSIVE NextNLoop(_, _, _, _, _, _, _)
NextNLoop(bi, rest, names, k, dead, e, convention) ==
    LET fault == InvokeFault(bi, dead, FaultAt(e, StepList + k)) IN
    IF fault # "none" THEN [names |-> names, exc |-> fault, nextNCalls |-> k]
    ELSE LET b == NextN(rest, PageSize, convention) IN
         IF b.more
         THEN NextNLoop(bi, b.rest, PushBatch(names, b.bl), k + 1, dead, e,
                        convention)
         ELSE [names |-> names, exc |-> "none", nextNCalls |-> k]

\* The try block of knownTasks.
KnownTasksTry(rc, dead, reg, convention, e) ==
    LET resolveFault == InvokeFault(rc, dead, FaultAt(e, StepResolve)) IN
    IF resolveFault # "none"
    THEN [names |-> <<>>, exc |-> resolveFault, nextNCalls |-> 0]
    ELSE IF ~reg.hasControlTasks
    THEN [names |-> <<>>, exc |-> NotFound, nextNCalls |-> 0]
    ELSE IF FaultAt(e, StepNarrow) # "none"
    THEN [names |-> <<>>, exc |-> FaultAt(e, StepNarrow), nextNCalls |-> 0]
    ELSE LET control_tasks == Narrow(e.ctKind, NamingContextRef)
             listFault == InvokeFault(control_tasks, dead, FaultAt(e, StepList))
         IN
         IF listFault # "none"
         THEN [names |-> <<>>, exc |-> listFault, nextNCalls |-> 0]
         ELSE LET l == ListBindings(reg, ListHowMany, e.iterNil) IN
              NextNLoop(l.bi, l.rest, <<>>, 1, dead, e, convention)

\* As the handler of knownTasks, absorbing every CORBA exception.
KnownTasksCatchAll(names, exc) ==
    IF exc = "none" \/ IsCorbaException(exc) THEN Return(names) ELSE Throw(exc)

\* catch (CosNaming::NamingContext::NotFound) { } and return names.
KnownTasksCatch(names, exc) ==
    IF exc = "none" \/ exc = NotFound THEN Return(names) ELSE Throw(exc)

knownTasksCode(rc, dead, reg, convention, e) ==
    LET t == KnownTasksTry(rc, dead, reg, convention, e) IN
    KnownTasksCatch(t.names, t.exc)

\* ------------------------------------------------------------- findByName

NilTask == [ref |-> NilRef, id |-> 0]
ControlTaskRef(i) == [ref |-> "ControlTask", id |-> i]

\* ControlTask::getName of the task server bound as i.
TaskName(i) == i

\* What the naming service and the task server do during one findByName
\* call: the call that raises a transport fault (0: none; 1 resolve,
\* 2 _narrow, 3 getName) and the interface of the object bound under name.
FindEnv ==
    [faultAt : 0..3, objKind : {"ControlTask", "Object"}]

StepGetName == 3

\* As the handlers of findByName, re-raising every exception unchanged.
FindByNameCatchRethrow(exc) == Throw(exc)

\* As the handlers of findByName, wrapping NotFound only.
FindByNameCatchNotFoundOnly(exc) ==
    IF exc = NotFound THEN Throw(IllegalServer) ELSE Throw(exc)

\* catch (CORBA::Exception &e) { throw IllegalServer(); }
\* catch (...) { throw; }
FindByNameCatch(exc) ==
    IF IsCorbaException(exc) THEN Throw(IllegalServer) ELSE Throw(exc)

\* As findByName without the getName round-trip.
findByNameNoVerify(rc, dead, reg, name, e) ==
    LET resolveFault == InvokeFault(rc, dead, FaultAt(e, StepResolve)) IN
    IF resolveFault # "none" THEN FindByNameCatch(resolveFault)
    ELSE IF ~reg.hasControlTasks \/ name > reg.n THEN FindByNameCatch(NotFound)
    ELSE IF FaultAt(e, StepNarrow) # "none"
    THEN FindByNameCatch(FaultAt(e, StepNarrow))
    ELSE LET mtask == IF e.objKind = "ControlTask"
                      THEN ControlTaskRef(name) ELSE NilTask
         IN Return([handle |-> mtask, nm |-> 0])

findByNameCode(rc, dead, reg, name, e) ==
    LET resolveFault == InvokeFault(rc, dead, FaultAt(e, StepResolve)) IN
    IF resolveFault # "none" THEN FindByNameCatch(resolveFault)
    ELSE IF ~reg.hasControlTasks \/ name > reg.n THEN FindByNameCatch(NotFound)
    ELSE IF FaultAt(e, StepNarrow) # "none"
    THEN FindByNameCatch(FaultAt(e, StepNarrow))
    ELSE LET mtask == IF e.objKind = "ControlTask"
                      THEN ControlTaskRef(name) ELSE NilTask
         IN
         IF mtask.ref = NilRef THEN FindByNameCatch(IllegalServer)
         ELSE LET nameFault == InvokeFault(mtask.ref, dead,
                                           FaultAt(e, StepGetName))
              IN
              IF nameFault # "none" THEN FindByNameCatch(nameFault)
              ELSE Return([handle |-> mtask, nm |-> TaskName(mtask.id)])

\* ---------------------------------------------------------- call history

\* InitOrb gets past the guard and ORB_init returns: orb is assigned.
OrbInitSucceeds(o, e) == is_nil(o) /\ e.orbInit = "ok"

\* InitOrb reaches the assignment of rootContext and _narrow returns.
RootContextAssigned(o, e) ==
    /\ OrbInitSucceeds(o, e)
    /\ ~IsCorbaException(e.nsRef)
    /\ (is_nil(e.nsRef) \/ e.narrowFault = "none")

\* As the destroy calls of DestroyOrb, each in a try block of its own.
DestroyOrbInvocationsSeparateTry(rc, od, rd, e) == <<"rootContext", "orb">>

\* The destroy calls one DestroyOrb call makes, in order: orb->destroy()
\* is reached only when rootContext->destroy() returned.
DestroyOrbInvocations(rc, od, rd, e) ==
    IF InvokeFault(rc, od \/ rd, e.rootDestroy) = "none"
    THEN <<"rootContext", "orb">>
    ELSE <<"rootContext">>

\* What has happened since the process started: the assignments of
\* rootContext, the ORB_init calls that returned, the orb->destroy() calls
\* made, the DestroyOrb calls made, whether an InitOrb call returned true,
\* and the next_n calls of the last knownTasks call.
NoHistory ==
    [rootContextWrites |-> 0, orbInits |-> 0, orbDestroys |-> 0,
     destroyOrbCalls |-> 0, initOk |-> FALSE, nextNCalls |-> 0]

Count(b) == IF b THEN 1 ELSE 0

\* ------------------------------------------------------------ the machine

\* The state of a process that has not called CorbaAccess yet; at is the
\* place of the caller.
Fresh(at) ==
    /\ orb = NilRef
    /\ rootContext = NilRef
    /\ orbDestroyed = FALSE
    /\ rootDestroyed = FALSE
    /\ registry \in Registries
    /\ nextNReturns \in NextNConventions
    /\ lastCall = "none"
    /\ arg = [none |-> TRUE]
    /\ ret = Return("none")
    /\ calls = 0
    /\ hist = NoHistory
    /\ pc = at
    /\ mainNames = <<>>

Init == Fresh("caller")

Called(name, a, r) ==
    /\ calls' = calls + 1
    /\ lastCall' = name
    /\ arg' = a
    /\ ret' = r

CallInitOrb(e) ==
    LET r == InitOrbCode(orb, rootContext, e) IN
    /\ Called("InitOrb", e, r.ret)
    /\ orb' = r.orb
    /\ rootContext' = r.rootContext
    /\ hist' = [hist EXCEPT
                  !.rootContextWrites = @ + Count(RootContextAssigned(orb, e)),
                  !.orbInits = @ + Count(OrbInitSucceeds(orb, e)),
                  !.initOk = @ \/ (r.ret.kind = "return" /\ r.ret.val = TRUE),
                  !.nextNCalls = 0]
    /\ UNCHANGED <<orbDestroyed, rootDestroyed, registry, nextNReturns>>

CallDestroyOrb(e) ==
    LET r == DestroyOrbCode(orb, rootContext, orbDestroyed, rootDestroyed, e)
        made == DestroyOrbInvocations(rootContext, orbDestroyed,
                                      rootDestroyed, e)
    IN
    /\ Called("DestroyOrb", e, r.ret)
    /\ orbDestroyed' = r.orbDestroyed
    /\ rootDestroyed' = r.rootDestroyed
    /\ hist' = [hist EXCEPT
                  !.orbDestroys = @ + Count(\E i \in 1..Len(made) :
                                                made[i] = "orb"),
                  !.destroyOrbCalls = @ + 1,
                  !.nextNCalls = 0]
    /\ UNCHANGED <<orb, rootContext, registry, nextNReturns>>

CallKnownTasks(e) ==
    /\ Called("knownTasks", e,
              knownTasksCode(rootContext, orbDestroyed \/ rootDestroyed,
                             registry, nextNReturns, e))
    /\ hist' = [hist EXCEPT
                  !.nextNCalls =
                      KnownTasksTry(rootContext, orbDestroyed \/ rootDestroyed,
                                    registry, nextNReturns, e).nextNCalls]
    /\ UNCHANGED <<orb, rootContext, orbDestroyed, rootDestroyed, registry,
                   nextNReturns>>

CallFindByName(name, e) ==
    /\ Called("findByName", [name |-> name, env |-> e],
              findByNameCode(rootContext, orbDestroyed \/ rootDestroyed,
                             registry, name, e))
    /\ hist' = [hist EXCEPT !.nextNCalls = 0]
    /\ UNCHANGED <<orb, rootContext, orbDestroyed, rootDestroyed, registry,
                   nextNReturns>>

\* The operations of CorbaAccess, called in any order by any caller.

InitOrb ==
    /\ calls < MaxCalls
    /\ \E e \in InitEnv : CallInitOrb(e)
    /\ UNCHANGED <<pc, mainNames>>

DestroyOrb ==
    /\ calls < MaxCalls
    /\ \E e \in DestroyEnv : CallDestroyOrb(e)
    /\ UNCHANGED <<pc, mainNames>>

getOrb ==
    /\ calls < MaxCalls
    /\ Called("getOrb", [none |-> TRUE], Return(orb))
    /\ hist' = [hist EXCEPT !.nextNCalls = 0]
    /\ UNCHANGED <<orb, rootContext, orbDestroyed, rootDestroyed, registry,
                   nextNReturns, pc, mainNames>>

getRootContext ==
    /\ calls < MaxCalls
    /\ Called("getRootContext", [none |-> TRUE], Return(rootContext))
    /\ hist' = [hist EXCEPT !.nextNCalls = 0]
    /\ UNCHANGED <<orb, rootContext, orbDestroyed, rootDestroyed, registry,
                   nextNReturns, pc, mainNames>>

knownTasks ==
    /\ calls < MaxCalls
    /\ \E e \in KnownTasksEnv : CallKnownTasks(e)
    /\ UNCHANGED <<pc, mainNames>>

findByName ==
    /\ calls < MaxCalls
    /\ \E name \in 1..MaxName, e \in FindEnv : CallFindByName(name, e)
    /\ UNCHANGED <<pc, mainNames>>

Next ==
    \/ InitOrb
    \/ DestroyOrb
    \/ getOrb
    \/ getRootContext
    \/ knownTasks
    \/ findByName

Spec == Init /\ [][Next]_vars

\* ------------------------------------------------------------------- main

\* The places of main: before InitOrb (line 6), before knownTasks (line 8),
\* in the for loop (lines 9-12), in the catch handler (lines 14-17), before
\* the last DestroyOrb (line 18), returned, and left by an exception.
MainInit == Fresh("InitOrb")

\* Line 6, outside the try block: an exception of InitOrb leaves main.
mainInitOrb ==
    /\ pc = "InitOrb"
    /\ \E e \in InitEnv : CallInitOrb(e)
    /\ pc' = IF ret'.kind = "throw" THEN "uncaught" ELSE "knownTasks"
    /\ UNCHANGED mainNames

\* Line 8, whatever InitOrb returned.
mainKnownTasks ==
    /\ pc = "knownTasks"
    /\ \E e \in KnownTasksEnv : CallKnownTasks(e)
    /\ IF ret'.kind = "throw"
       THEN pc' = "catch" /\ UNCHANGED mainNames
       ELSE /\ mainNames' = ret'.val
            /\ pc' = IF Len(ret'.val) = 0 THEN "DestroyOrb" ELSE "loop"

\* Lines 9-12: findByName of the next name, then getTaskState on the handle.
mainLoop ==
    /\ pc = "loop"
    /\ \E e \in FindEnv, taskStateFault \in {"none", "TRANSIENT"} :
           /\ CallFindByName(Head(mainNames), e)
           /\ IF ret'.kind = "throw" \/ taskStateFault # "none"
              THEN pc' = "catch" /\ UNCHANGED mainNames
              ELSE /\ mainNames' = Tail(mainNames)
                   /\ pc' = IF Len(mainNames) = 1 THEN "DestroyOrb" ELSE "loop"

\* Lines 14-17: DestroyOrb, then the exception is thrown again.
mainCatch ==
    /\ pc = "catch"
    /\ \E e \in DestroyEnv : CallDestroyOrb(e)
    /\ pc' = "uncaught"
    /\ UNCHANGED mainNames

\* Line 18.
mainDestroyOrb ==
    /\ pc = "DestroyOrb"
    /\ \E e \in DestroyEnv : CallDestroyOrb(e)
    /\ pc' = IF ret'.kind = "throw" THEN "uncaught" ELSE "returned"
    /\ UNCHANGED mainNames

MainNext ==
    \/ mainInitOrb
    \/ mainKnownTasks
    \/ mainLoop
    \/ mainCatch
    \/ mainDestroyOrb

MainSpec == MainInit /\ [][MainNext]_vars

\* ------------------------------------------------------------- properties

\* The root context can be called: it is a naming context and neither it
\* nor the ORB has been destroyed.
RootUsable ==
    /\ rootContext = NamingContextRef
    /\ ~orbDestroyed
    /\ ~rootDestroyed

\* C1: an InitOrb call made while orb is non-nil returns false and leaves
\* orb and rootContext as they were.
C1_InitOrbTwiceReturnsFalse ==
    [][(~is_nil(orb) /\ lastCall' = "InitOrb" /\ calls' = calls + 1)
       => (/\ ret'.kind = "return"
           /\ ret'.val = FALSE
           /\ orb' = orb
           /\ rootContext' = rootContext)]_vars

\* C1 witness: an InitOrb call for which the ORB and the naming service
\* would have worked was rejected on an initialised CorbaAccess.
C1_Witness ==
    /\ lastCall = "InitOrb"
    /\ calls >= 2
    /\ arg.orbInit = "ok"
    /\ arg.nsRef = NamingContextRef
    /\ arg.narrowFault = "none"
    /\ ret.kind = "return"
    /\ ret.val = FALSE
    /\ ~is_nil(orb)
    /\ ~is_nil(rootContext)

\* C2: orb and rootContext are both nil or both non-nil in every state.
C2_BothOrNeither == is_nil(orb) <=> is_nil(rootContext)

\* C3: an InitOrb call that starts the ORB and resolves "NameService" to a
\* nil reference returns false; no exception leaves the call.
C3_NilNameServiceReturnsFalse ==
    (/\ lastCall = "InitOrb"
     /\ arg.orbInit = "ok"
     /\ arg.nsRef = NilRef)
    => (ret.kind = "return" /\ ret.val = FALSE)

\* C4: after an InitOrb call that returned true, orb is non-nil and
\* rootContext is a non-nil naming context.
C4_TrueMeansBothReady ==
    (lastCall = "InitOrb" /\ ret.kind = "return" /\ ret.val = TRUE)
    => (~is_nil(orb) /\ rootContext = NamingContextRef)

\* C5: every DestroyOrb call returns normally, whatever the state it is
\* called in and whatever fault the two destroy calls raise.
C5_DestroyOrbNeverThrows ==
    lastCall = "DestroyOrb" => ret.kind = "return"

\* C5 witness: the root context's destroy raised a fault on an initialised
\* CorbaAccess and DestroyOrb returned.
C5_Witness ==
    /\ lastCall = "DestroyOrb"
    /\ RootUsable
    /\ arg.rootDestroy = "NotEmpty"
    /\ ret.kind = "return"

\* C6: knownTasks returns the empty sequence when "ControlTasks" has no
\* binding and when "ControlTasks" is not bound, with or without an
\* iterator handed out by list.
C6_EmptyOrMissingGivesEmpty ==
    (/\ lastCall = "knownTasks"
     /\ RootUsable
     /\ registry.n = 0
     /\ arg.faultAt = 0
     /\ arg.ctKind = NamingContextRef)
    => (ret.kind = "return" /\ ret.val = <<>>)

\* The set of the names a knownTasks call returned.
Listed == {ret.val[i] : i \in 1..Len(ret.val)}

\* A knownTasks call that found "ControlTasks", met no fault and was given
\* an iterator by list.
ListedWithIterator ==
    /\ lastCall = "knownTasks"
    /\ RootUsable
    /\ registry.hasControlTasks
    /\ arg.faultAt = 0
    /\ arg.ctKind = NamingContextRef
    /\ ~(registry.n = 0 /\ arg.iterNil)

\* The call returned one name for each of the N bindings, none twice.
ListedEveryBindingOnce ==
    /\ ret.kind = "return"
    /\ Len(ret.val) = registry.n
    /\ Listed = 1..registry.n

\* C7 as stated: when next_n's boolean tells whether bindings remain after
\* the batch, knownTasks returns every binding exactly once.
C7_AllListedWhenMoreRemain ==
    (ListedWithIterator /\ nextNReturns = "more_remain")
    => ListedEveryBindingOnce

\* C7 amended: when next_n's boolean tells whether the batch it delivered
\* holds a binding, knownTasks returns every binding exactly once.
C7_AllListedWhenBatchNonempty ==
    (ListedWithIterator /\ nextNReturns = "batch_nonempty")
    => ListedEveryBindingOnce

\* C7 witness: more than two full pages were listed completely.
C7_Witness ==
    /\ ListedWithIterator
    /\ nextNReturns = "batch_nonempty"
    /\ registry.n > 2 * PageSize
    /\ ListedEveryBindingOnce

\* The name asked of the last findByName call is bound under ControlTasks.
FindNameBound == registry.hasControlTasks /\ arg.name <= registry.n

\* C8: findByName raises IllegalServer when the name is not bound and when
\* the bound object does not narrow to a ControlTask.
C8_AbsentOrWrongTypeIsIllegalServer ==
    (/\ lastCall = "findByName"
     /\ RootUsable
     /\ arg.env.faultAt = 0
     /\ (~FindNameBound \/ arg.env.objKind = "Object"))
    => (ret.kind = "throw" /\ ret.exc = IllegalServer)

\* C8 witness: the name was bound to an object of another interface and
\* the call raised IllegalServer.
C8_Witness ==
    /\ lastCall = "findByName"
    /\ RootUsable
    /\ arg.env.faultAt = 0
    /\ FindNameBound
    /\ arg.env.objKind = "Object"
    /\ ret.kind = "throw"
    /\ ret.exc = IllegalServer

\* C9: a findByName call in which resolve, _narrow or getName raises a
\* transport fault raises IllegalServer, and no findByName call raises a
\* CORBA exception.
C9_TransportFaultIsIllegalServer ==
    lastCall = "findByName"
    => (/\ arg.env.faultAt # 0 => ret.kind = "throw"
        /\ ret.kind = "throw" => ret.exc = IllegalServer)

\* C9 witness: getName raised a transport fault on a narrowed task and the
\* call raised IllegalServer.
C9_Witness ==
    /\ lastCall = "findByName"
    /\ RootUsable
    /\ FindNameBound
    /\ arg.env.objKind = "ControlTask"
    /\ arg.env.faultAt = StepGetName
    /\ ret.kind = "throw"
    /\ ret.exc = IllegalServer

\* C10: a findByName call that returns hands out the non-nil task bound
\* under the name, on which getName has returned the task's name.
C10_ReturnedHandleIsVerified ==
    (lastCall = "findByName" /\ ret.kind = "return")
    => (/\ ret.val.handle.ref # NilRef
        /\ ret.val.handle = ControlTaskRef(arg.name)
        /\ ret.val.nm = TaskName(arg.name))

\* C10 witness: a findByName call returned a handle.
C10_Witness ==
    /\ lastCall = "findByName"
    /\ ret.kind = "return"
    /\ FindNameBound
    /\ arg.env.objKind = "ControlTask"

\* main has been left, by return or by an exception.
MainLeft == pc \in {"returned", "uncaught"}

\* C11: whenever main is left, by return or by an exception, DestroyOrb
\* has been called exactly once.
C11_MainDestroysExactlyOnce ==
    MainLeft => hist.destroyOrbCalls = 1

\* C12: rootContext is assigned at most once and only by InitOrb, a
\* non-nil rootContext is never assigned again, and knownTasks, findByName,
\* getOrb and getRootContext leave orb and rootContext as they were.
C12_RootContextAssignedOnce ==
    [][/\ hist'.rootContextWrites <= 1
       /\ rootContext' # rootContext
          => (is_nil(rootContext) /\ lastCall' = "InitOrb")
       /\ hist'.rootContextWrites # hist.rootContextWrites
          => lastCall' = "InitOrb"
       /\ (/\ calls' = calls + 1
           /\ lastCall' \in {"knownTasks", "findByName", "getOrb",
                             "getRootContext"})
          => (orb' = orb /\ rootContext' = rootContext)]_vars

\* C12 witness: rootContext was assigned by one InitOrb call, and later
\* InitOrb, knownTasks and findByName calls have been made.
C12_Witness ==
    /\ hist.rootContextWrites = 1
    /\ rootContext = NamingContextRef
    /\ lastCall = "InitOrb"
    /\ calls >= 3

\* C13: ORB_init returns at most once and orb->destroy() is called at most
\* once, over any sequence of InitOrb and DestroyOrb calls.
C13_OrbCreatedAndDestroyedOnce ==
    hist.orbInits <= 1 /\ hist.orbDestroys <= 1

\* C13 witness: the ORB was created and destroyed, and DestroyOrb has been
\* called again since.
C13_Witness ==
    /\ hist.orbInits = 1
    /\ hist.orbDestroys = 1
    /\ orbDestroyed
    /\ hist.destroyOrbCalls >= 2
    /\ lastCall = "DestroyOrb"

\* C14: a DestroyOrb call on an initialised CorbaAccess leaves the ORB
\* destroyed when orb->destroy() raises nothing, whatever
\* rootContext->destroy() raised.
C14_DestroyOrbDestroysTheOrb ==
    [][(/\ RootUsable
        /\ calls' = calls + 1
        /\ lastCall' = "DestroyOrb"
        /\ arg'.orbDestroy = "none")
       => orbDestroyed']_vars

\* The k-th next_n call of the last knownTasks call is made when the calls
\* before it returned true.
NextNReached(k) ==
    /\ ~(registry.n = 0 /\ arg.iterNil)
    /\ IF nextNReturns = "batch_nonempty"
       THEN k = 1 \/ registry.n > (k - 2) * PageSize
       ELSE registry.n > (k - 1) * PageSize

\* The call of the last knownTasks call that raised the transport fault.
KnownTasksFaultRaised ==
    /\ RootUsable
    /\ arg.faultAt # 0
    /\ arg.faultAt >= StepNarrow => registry.hasControlTasks
    /\ arg.faultAt >= StepList => arg.ctKind = NamingContextRef
    /\ arg.faultAt > StepList => NextNReached(arg.faultAt - StepList)

\* C15: a fault other than NotFound raised by resolve, _narrow, list or
\* next_n leaves knownTasks as that same fault; knownTasks raises no
\* IllegalServer and no NotFound.
C15_OtherFaultsPropagate ==
    lastCall = "knownTasks"
    => (/\ KnownTasksFaultRaised
           => (ret.kind = "throw" /\ ret.exc = "TRANSIENT")
        /\ ret.kind = "throw"
           => (IsCorbaException(ret.exc) /\ ret.exc # NotFound))

\* C15 witness: the second next_n call raised a transport fault after a
\* full page had been collected, and knownTasks raised that fault.
C15_Witness ==
    /\ lastCall = "knownTasks"
    /\ KnownTasksFaultRaised
    /\ arg.faultAt = StepList + 2
    /\ ret.kind = "throw"
    /\ ret.exc = "TRANSIENT"

C17_DiscoveryOnlyWhenInitialised ==
    lastCall \in {"knownTasks", "findByName"}
    => (hist.initOk /\ hist.destroyOrbCalls = 0)

\* C18: an InitOrb call in which ORB_init returned leaves orb non-nil,
\* also when it fails afterwards; once orb is non-nil it stays non-nil, and
\* every InitOrb call made from then on returns false.
C18_NonNilOrbIsAbsorbing ==
    [][/\ (/\ is_nil(orb)
           /\ calls' = calls + 1
           /\ lastCall' = "InitOrb"
           /\ arg'.orbInit = "ok")
          => ~is_nil(orb')
       /\ ~is_nil(orb)
          => (/\ ~is_nil(orb')
              /\ (calls' = calls + 1 /\ lastCall' = "InitOrb")
                 => (ret'.kind = "return" /\ ret'.val = FALSE))]_vars

\* C18 witness: no InitOrb call has returned true, the naming service was
\* not reached by the one that started the ORB, and an InitOrb call for
\* which the ORB and the naming service would have worked returned false.
C18_Witness ==
    /\ lastCall = "InitOrb"
    /\ ~hist.initOk
    /\ hist.orbInits = 1
    /\ hist.rootContextWrites = 0
    /\ ~is_nil(orb)
    /\ arg.orbInit = "ok"
    /\ arg.nsRef = NamingContextRef
    /\ arg.narrowFault = "none"
    /\ ret.kind = "return"
    /\ ret.val = FALSE

====
